---- MODULE Spec2Model ----
(***************************************************************************)
(* errored_status_code (include/errored_status_code.hpp): a status_code    *)
(* that is checked on construction never to be a success.                  *)
(*                                                                         *)
(* The state is a small pool of errored_status_code objects (each either   *)
(* not constructed, or an instance of errored_status_code<generic>,        *)
(* errored_status_code<posix> or errored_status_code<erased<W>>), the      *)
(* process (running, or ended by std::terminate / a failed assert) and a  *)
(* record of the operation last executed with what it returned.           *)
(*                                                                         *)
(* status_code, its domains, generic_code and detail::erasure_cast are     *)
(* included by the header but are not part of it; they are modelled in     *)
(* the first section.                                                      *)
(***************************************************************************)
EXTENDS Integers, FiniteSets

(***************************************************************************)
(* Bounds                                                                  *)
(***************************************************************************)
\* number of object slots of the pool
NSlots == 2
\* bits modelled per byte of a value (scales sizeof to a bit width)
BitsPerByte == 2

(***************************************************************************)
(* The collaborators of the header: status_code, domains, erasure          *)
(***************************************************************************)
\* sizeof(errc) and sizeof(int): the value_type of the generic and posix domains
ValueBytes == 4
\* sizeof(ErasedType) of erased<ErasedType>: the erased payload
ErasedBytes == 8

errc_success == 0
errc_resource_busy == 16
errc_unknown == -1
\* the errno of the posix domain that errc::resource_busy stands for
posix_EBUSY == 16

\* the enumerators of errc in the model
Errc == {errc_success, errc_resource_busy, errc_unknown}

\* the null domain pointer of an empty status code
NULL == "null"
ConcreteDomains == {"generic", "posix"}
Types == ConcreteDomains \cup {"erased"}

ValueBits == ValueBytes * BitsPerByte
ErasedBits == ErasedBytes * BitsPerByte
BitsOf(T) == IF T = "erased" THEN ErasedBits ELSE ValueBits

\* the bit pattern of integer n in a two's complement field of `bits` bits
Pattern(n, bits) == n % (2 ^ bits)

\* the values a domain's value_type takes in the model, as bit patterns
DomainValues(D) ==
  IF D = "generic"
  THEN {Pattern(errc_success, ValueBits), Pattern(errc_resource_busy, ValueBits),
        Pattern(errc_unknown, ValueBits)}
  ELSE {Pattern(0, ValueBits), Pattern(posix_EBUSY, ValueBits)}

\* value_type{}: the value-initialised value
DefaultValue == 0

\* detail::type_erasure_is_safe<To, From>: From is trivially copyable (all value
\* types here are) and fits into To
type_erasure_is_safe(toBytes, fromBytes) == fromBytes <= toBytes

\* detail::erasure_cast<To>(from): the value's bits in a field of another size;
\* a larger target is filled by sign extension (the value types are signed),
\* a smaller one keeps the low bits
erasure_cast(v, fromBits, toBits) ==
  IF toBits = fromBits THEN v
  ELSE IF toBits < fromBits THEN v % (2 ^ toBits)
  ELSE IF v >= 2 ^ (fromBits - 1) THEN v + (2 ^ toBits - 2 ^ fromBits)
  ELSE v

\* a status code object: the static type of its class, its domain pointer
\* (NULL when empty) and the bits of its _value
StatusCode(T, d, v) == [type |-> T, dom |-> d, val |-> v]

\* no object lives in the slot
NoObject == [type |-> "none", dom |-> NULL, val |-> 0]

\* status_code(): the default constructed, empty status code
status_code_default(T) == StatusCode(T, NULL, DefaultValue)

\* status_code<D>(const value_type &) / status_code<D>(in_place, args...)
status_code_value(D, v) == StatusCode(D, D, v)

\* generic_code(errc)
generic_code(e) == status_code_value("generic", Pattern(e, ValueBits))

\* make_status_code(errc): the conversion found by ADL for the generic enumeration
make_status_code(e) == generic_code(e)

\* status_code<erased<ErasedType>>(const status_code<DomainType> &): same domain
\* pointer, the value's bits cast into the erased payload
status_code_erase(sc) ==
  StatusCode("erased", sc.dom, erasure_cast(sc.val, BitsOf(sc.type), ErasedBits))

\* the moved-from state of a status code: its domain pointer is reset
status_code_moved_from(o) == [o EXCEPT !.dom = NULL]

\* status_code::clear(): empty, with a value-initialised value
status_code_clear(o) == status_code_default(o.type)

\* status_code::empty()
empty(o) == o.dom = NULL

\* the value a domain reads from a status code of its own: the low bytes of
\* the storage (an erased code keeps the value in the low bytes of the payload)
DomainValue(o) == o.val % (2 ^ ValueBits)

\* status_code_domain::_do_failure (generic: value != errc::success; posix: != 0)
do_failure(o) == DomainValue(o) # errc_success

\* status_code::success(): an empty code is not a success
success(o) == IF o.dom # NULL THEN ~do_failure(o) ELSE FALSE

\* status_code::failure(): an empty code is not a failure either
failure(o) == IF o.dom # NULL THEN do_failure(o) ELSE FALSE

\* status_code_domain::_do_equivalent(code1, code2), called on code1's domain
do_equivalent(c1, c2) ==
  IF c1.dom = "generic"
  THEN c2.dom = "generic" /\ DomainValue(c1) = DomainValue(c2)
  ELSE \/ c2.dom = "posix" /\ DomainValue(c1) = DomainValue(c2)
       \/ c2.dom = "generic" /\ DomainValue(c1) = DomainValue(c2)

\* status_code_domain::_generic_code(code): the generic code a code maps to
do_generic_code(o) == status_code_value("generic", DomainValue(o))

\* status_code::equivalent(o)
equivalent(a, b) ==
  IF a.dom # NULL /\ b.dom # NULL
  THEN \/ do_equivalent(a, b)
       \/ do_equivalent(b, a)
       \/ /\ do_generic_code(b).val # Pattern(errc_unknown, ValueBits)
          /\ do_equivalent(a, do_generic_code(b))
       \/ /\ do_generic_code(a).val # Pattern(errc_unknown, ValueBits)
          /\ do_equivalent(b, do_generic_code(a))
  ELSE a.dom = NULL /\ b.dom = NULL

\* the status_code<T> values handed to the operations as arguments
ArgCodes(T) ==
  IF T = "erased"
  THEN {status_code_default("erased")} \cup
       UNION {{status_code_erase(status_code_value(D, v)) : v \in DomainValues(D)} :
              D \in ConcreteDomains}
  ELSE {status_code_default(T)} \cup {status_code_value(T, v) : v \in DomainValues(T)}

(***************************************************************************)
(* errored_status_code<DomainType> and errored_status_code<erased<E>>      *)
(***************************************************************************)
VARIABLES
  objs,    \* slot -> the errored_status_code living there, or NoObject
  proc,    \* "running", "terminated" (std::terminate) or "aborted" (assert)
  last     \* the operation executed last, its operands and what it returned

vars == <<objs, proc, last>>

Slots == 1 .. NSlots

\* a constructor's outcome: the object it leaves, or how the process ended
Continue(o) == [term |-> "none", obj |-> o]
Terminate == [term |-> "terminated", obj |-> NoObject]
Abort == [term |-> "aborted", obj |-> NoObject]

\* _check() with the call of std::terminate() left out
_check_skipped(o) == Continue(o)

\* errored_status_code<DomainType>::_check()
_check(o) == IF success(o) THEN Terminate ELSE Continue(o)

\* errored_status_code<erased<ErasedType>>::_check()
erased_check(o) == IF success(o) THEN Terminate ELSE Continue(o)

\* errored_status_code() = default, of the primary template
ctor_default(D) == Continue(status_code_default(D))

\* errored_status_code() = default, of the erased specialisation
erased_ctor_default == Continue(status_code_default("erased"))

\* explicit errored_status_code(const _base &o) / (_base &&o)
ctor_base(D, o) == _check(StatusCode(D, o.dom, o.val))

\* explicit errored_status_code(const _base &o) / (_base &&o), erased
erased_ctor_base(o) == erased_check(StatusCode("erased", o.dom, o.val))

\* explicit errored_status_code(in_place_t, Args &&...)
ctor_in_place(D, v) == _check(status_code_value(D, v))

\* the value constructor without its _check()
ctor_value_unchecked(D, v) == Continue(status_code_value(D, v))

\* explicit errored_status_code(const value_type &v) / (value_type &&v)
ctor_value(D, v) == _check(status_code_value(D, v))

\* assert(v.domain() == this->domain()): the outcomes of the assertion over
\* the builds. With NDEBUG it is compiled out and the constructor goes on;
\* without, another domain aborts, and an empty v has no domain to
\* dereference (undefined: it may abort as well).
assert_domain(v, o) ==
  IF v.dom = o.dom THEN {Continue(o)} ELSE {Continue(o), Abort}

\* the widening constructor handing the erased payload on without erasure_cast
ctor_erased_nocast(D, v) == {ctor_value(D, v.val)}

\* explicit errored_status_code(const status_code<erased<ErasedType>> &v):
\* the set of outcomes
ctor_erased(D, v) ==
  LET r == ctor_value(D, erasure_cast(v.val, ErasedBits, ValueBits))
  IN IF r.term # "none" THEN {r}
     ELSE {IF a.term # "none" THEN a ELSE _check(a.obj) : a \in assert_domain(v, r.obj)}

\* errored_status_code(const status_code<DomainType> &v), erased: narrowing
erased_ctor_narrow(v) == erased_check(status_code_erase(v))

\* std::is_constructible<errored_status_code<T>, status_code<S>>
is_constructible(T, S) ==
  \/ T = S
  \/ T = "erased" /\ S # "erased" /\ type_erasure_is_safe(ErasedBytes, ValueBytes)
  \/ T # "erased" /\ S = "erased" /\ type_erasure_is_safe(ErasedBytes, ValueBytes)

\* the converting constructor initialising its base from make_status_code's
\* result directly, with no checked constructor and no _check()
ctor_make_direct(D, e) ==
  Continue(StatusCode(D, make_status_code(e).dom, make_status_code(e).val))

\* errored_status_code(T &&v, Args &&...), primary template: delegates to the
\* constructor taking make_status_code's result, then checks
ctor_make(D, e) ==
  LET r == ctor_base(D, make_status_code(e))
  IN IF r.term # "none" THEN r ELSE _check(r.obj)

\* errored_status_code(T &&v, Args &&...), erased: the delegate is the
\* narrowing constructor
erased_ctor_make(e) ==
  LET r == erased_ctor_narrow(make_status_code(e))
  IN IF r.term # "none" THEN r ELSE erased_check(r.obj)

\* value() const &, primary template
value(o) == o.val

\* value() const, erased
erased_value(o) == o.val

(***************************************************************************)
(* The comparison operators                                                *)
(***************************************************************************)
\* operator== asking only a's domain (no equivalent())
eq_errored_errored_one_way(a, b) ==
  IF a.dom # NULL /\ b.dom # NULL THEN do_equivalent(a, b) ELSE a.dom = NULL /\ b.dom = NULL

\* operator==(const errored_status_code<D1> &a, const errored_status_code<D2> &b)
eq_errored_errored(a, b) == equivalent(a, b)

\* operator==(const status_code<D1> &a, const errored_status_code<D2> &b)
eq_code_errored(a, b) == equivalent(a, b)

\* operator==(const errored_status_code<D1> &a, const status_code<D2> &b)
eq_errored_code(a, b) == equivalent(a, b)

\* operator!=(const errored_status_code<D1> &a, const errored_status_code<D2> &b)
ne_errored_errored(a, b) == ~equivalent(a, b)

\* operator!=(const status_code<D1> &a, const errored_status_code<D2> &b)
ne_code_errored(a, b) == ~equivalent(a, b)

\* operator!=(const errored_status_code<D1> &a, const status_code<D2> &b)
ne_errored_code(a, b) == ~equivalent(a, b)

\* operator== comparing domain tag and value instead of calling equivalent()
eq_errored_errc_structural(a, b) ==
  a.dom = generic_code(b).dom /\ a.val = generic_code(b).val

\* operator==(const errored_status_code<D1> &a, errc b)
eq_errored_errc(a, b) == equivalent(a, generic_code(b))

\* operator==(errc a, const errored_status_code<D1> &b)
eq_errc_errored(a, b) == equivalent(b, generic_code(a))

\* operator!=(const errored_status_code<D1> &a, errc b)
ne_errored_errc(a, b) == ~equivalent(a, generic_code(b))

\* operator!= with the negation left out
ne_errc_errored_unnegated(a, b) == equivalent(b, generic_code(a))

\* operator!=(errc a, const errored_status_code<D1> &b)
ne_errc_errored(a, b) == ~equivalent(b, generic_code(a))

Last(op, dst, src, T, arg, val) ==
  [op |-> op, dst |-> dst, src |-> src, T |-> T, arg |-> arg, val |-> val,
   eq |-> FALSE, ne |-> FALSE, rev |-> FALSE]

Init ==
  /\ objs = [i \in Slots |-> NoObject]
  /\ proc = "running"
  /\ last = Last("init", 0, 0, "none", NoObject, 0)

Live(i) == objs[i] # NoObject

\* a constructor call into slot i ends: the object lives, or the process ended
Constructed(i, r) ==
  IF r.term = "none"
  THEN objs' = [objs EXCEPT ![i] = r.obj] /\ proc' = proc
  ELSE objs' = objs /\ proc' = r.term

DefaultConstruct(i, T) ==
  /\ proc = "running" /\ ~Live(i)
  /\ Constructed(i, IF T = "erased" THEN erased_ctor_default ELSE ctor_default(T))
  /\ last' = Last("default", i, 0, T, NoObject, 0)

\* errored_status_code(const errored_status_code &) = default
CopyConstruct(i, j) ==
  /\ proc = "running" /\ ~Live(i) /\ Live(j)
  /\ objs' = [objs EXCEPT ![i] = objs[j]]
  /\ last' = Last("copy", i, j, objs[j].type, objs[j], 0)
  /\ UNCHANGED proc

\* errored_status_code(errored_status_code &&) = default: the source is left
\* moved-from
MoveConstruct(i, j) ==
  /\ proc = "running" /\ ~Live(i) /\ Live(j)
  /\ objs' = [objs EXCEPT ![i] = objs[j], ![j] = status_code_moved_from(objs[j])]
  /\ last' = Last("move", i, j, objs[j].type, objs[j], 0)
  /\ UNCHANGED proc

\* operator=(const errored_status_code &) = default
CopyAssign(i, j) ==
  /\ proc = "running" /\ Live(i) /\ Live(j) /\ objs[i].type = objs[j].type
  /\ objs' = [objs EXCEPT ![i] = objs[j]]
  /\ last' = Last("copy_assign", i, j, objs[j].type, objs[j], 0)
  /\ UNCHANGED proc

\* operator=(errored_status_code &&) = default
MoveAssign(i, j) ==
  /\ proc = "running" /\ Live(i) /\ Live(j) /\ i # j /\ objs[i].type = objs[j].type
  /\ objs' = [objs EXCEPT ![i] = objs[j], ![j] = status_code_moved_from(objs[j])]
  /\ last' = Last("move_assign", i, j, objs[j].type, objs[j], 0)
  /\ UNCHANGED proc

\* ~errored_status_code() = default
Destroy(i) ==
  /\ proc = "running" /\ Live(i)
  /\ objs' = [objs EXCEPT ![i] = NoObject]
  /\ last' = Last("destroy", i, 0, objs[i].type, objs[i], 0)
  /\ UNCHANGED proc

\* errored_status_code<T>(o) for a status_code<T> o (copied or moved from)
ConstructFromBase(i, T, o) ==
  /\ proc = "running" /\ ~Live(i)
  /\ Constructed(i, IF T = "erased" THEN erased_ctor_base(o) ELSE ctor_base(T, o))
  /\ last' = Last("base", i, 0, T, o, 0)

\* errored_status_code<D>(in_place, v)
ConstructInPlace(i, D, v) ==
  /\ proc = "running" /\ ~Live(i)
  /\ Constructed(i, ctor_in_place(D, v))
  /\ last' = Last("in_place", i, 0, D, NoObject, v)

\* errored_status_code<D>(v) for a value_type v
ConstructFromValue(i, D, v) ==
  /\ proc = "running" /\ ~Live(i)
  /\ Constructed(i, ctor_value(D, v))
  /\ last' = Last("value_ctor", i, 0, D, NoObject, v)

\* errored_status_code<T>(e) for an errc e: make_status_code(e) is found
ConstructFromForeign(i, T, e) ==
  /\ proc = "running" /\ ~Live(i)
  /\ is_constructible(T, make_status_code(e).type)
  /\ Constructed(i, IF T = "erased" THEN erased_ctor_make(e) ELSE ctor_make(T, e))
  /\ last' = Last("make", i, 0, T, NoObject, e)

\* the erased status codes an operation can be handed: arguments, and the
\* erased errored_status_code objects alive (each is a status_code<erased<E>>)
ErasedCodes == ArgCodes("erased") \cup {objs[j] : j \in {k \in Slots : objs[k].type = "erased"}}

\* errored_status_code<D>(v) for a status_code<erased<E>> v: widening
ConstructFromErased(i, D, v) ==
  /\ proc = "running" /\ ~Live(i)
  /\ type_erasure_is_safe(ErasedBytes, ValueBytes)
  /\ \E r \in ctor_erased(D, v) : Constructed(i, r)
  /\ last' = Last("widen", i, 0, D, v, 0)

\* the status codes of concrete domains an operation can be handed; an empty
\* one has no domain() to pass on and is not handed to the narrowing
ConcreteCodes ==
  UNION {ArgCodes(D) : D \in ConcreteDomains}
    \cup {objs[j] : j \in {k \in Slots : objs[k].type \in ConcreteDomains}}

\* errored_status_code<erased<E>>(v) for a status_code<D> v: narrowing
ConstructNarrow(i, v) ==
  /\ proc = "running" /\ ~Live(i)
  /\ ~empty(v)
  /\ type_erasure_is_safe(ErasedBytes, ValueBytes)
  /\ Constructed(i, erased_ctor_narrow(v))
  /\ last' = Last("narrow", i, 0, "erased", v, 0)

\* value()
Value(i) ==
  /\ proc = "running" /\ Live(i)
  /\ last' = Last("value", 0, i, objs[i].type, objs[i],
                  IF objs[i].type = "erased" THEN erased_value(objs[i]) ELSE value(objs[i]))
  /\ UNCHANGED <<objs, proc>>

\* clear(): private in the primary template (using _base::clear), inherited
\* public by the erased specialisation
Clear(i) ==
  /\ proc = "running" /\ Live(i) /\ objs[i].type = "erased"
  /\ objs' = [objs EXCEPT ![i] = status_code_clear(objs[i])]
  /\ last' = Last("clear", i, 0, "erased", objs[i], 0)
  /\ UNCHANGED proc

\* the record of a comparison: both operators' results on (a, b), and
\* operator== on the operands swapped
Compared(op, i, j, arg, e, eq, ne, rev) ==
  [op |-> op, dst |-> j, src |-> i, T |-> "none", arg |-> arg, val |-> e,
   eq |-> eq, ne |-> ne, rev |-> rev]

\* a == b, a != b and b == a for two errored status codes
CompareErrored(i, j) ==
  /\ proc = "running" /\ last.op = "init" /\ Live(i) /\ Live(j)
  /\ last' = Compared("cmp_errored_errored", i, j, NoObject, 0,
                      eq_errored_errored(objs[i], objs[j]),
                      ne_errored_errored(objs[i], objs[j]),
                      eq_errored_errored(objs[j], objs[i]))
  /\ UNCHANGED <<objs, proc>>

\* c == b, c != b and b == c for a status code c and an errored status code b
CompareCodeErrored(c, j) ==
  /\ proc = "running" /\ last.op = "init" /\ Live(j)
  /\ last' = Compared("cmp_code_errored", 0, j, c, 0,
                      eq_code_errored(c, objs[j]),
                      ne_code_errored(c, objs[j]),
                      eq_errored_code(objs[j], c))
  /\ UNCHANGED <<objs, proc>>

\* a == c, a != c and c == a for an errored status code a and a status code c
CompareErroredCode(i, c) ==
  /\ proc = "running" /\ last.op = "init" /\ Live(i)
  /\ last' = Compared("cmp_errored_code", i, 0, c, 0,
                      eq_errored_code(objs[i], c),
                      ne_errored_code(objs[i], c),
                      eq_code_errored(c, objs[i]))
  /\ UNCHANGED <<objs, proc>>

\* a == e, a != e and e == a for an errored status code a and an errc e
CompareErroredErrc(i, e) ==
  /\ proc = "running" /\ last.op = "init" /\ Live(i)
  /\ last' = Compared("cmp_errored_errc", i, 0, NoObject, e,
                      eq_errored_errc(objs[i], e),
                      ne_errored_errc(objs[i], e),
                      eq_errc_errored(e, objs[i]))
  /\ UNCHANGED <<objs, proc>>

\* e == b, e != b and b == e for an errc e and an errored status code b
CompareErrcErrored(e, j) ==
  /\ proc = "running" /\ last.op = "init" /\ Live(j)
  /\ last' = Compared("cmp_errc_errored", 0, j, NoObject, e,
                      eq_errc_errored(e, objs[j]),
                      ne_errc_errored(e, objs[j]),
                      eq_errored_errc(objs[j], e))
  /\ UNCHANGED <<objs, proc>>

\* the plain status codes handed to the comparisons
AllArgCodes == UNION {ArgCodes(T) : T \in Types}

Next ==
  \/ \E i \in Slots, T \in Types : DefaultConstruct(i, T)
  \/ \E i, j \in Slots : CopyConstruct(i, j)
  \/ \E i, j \in Slots : MoveConstruct(i, j)
  \/ \E i, j \in Slots : CopyAssign(i, j)
  \/ \E i, j \in Slots : MoveAssign(i, j)
  \/ \E i \in Slots : Destroy(i)
  \/ \E i \in Slots, T \in Types : \E o \in ArgCodes(T) : ConstructFromBase(i, T, o)
  \/ \E i \in Slots, D \in ConcreteDomains : \E v \in DomainValues(D) : ConstructInPlace(i, D, v)
  \/ \E i \in Slots, D \in ConcreteDomains : \E v \in DomainValues(D) : ConstructFromValue(i, D, v)
  \/ \E i \in Slots, T \in Types, e \in Errc : ConstructFromForeign(i, T, e)
  \/ \E i \in Slots, D \in ConcreteDomains : \E v \in ErasedCodes : ConstructFromErased(i, D, v)
  \/ \E i \in Slots : \E v \in ConcreteCodes : ConstructNarrow(i, v)
  \/ \E i \in Slots : Value(i)
  \/ \E i \in Slots : Clear(i)

\* the life of the objects: construction, assignment, value(), clear(),
\* destruction
Spec == Init /\ [][Next]_vars

\* the values an errored status code's storage holds: the failures of either
\* domain (a widening does not look at the erased code's domain)
FailureValues == UNION {DomainValues(D) : D \in ConcreteDomains} \ {DefaultValue}

\* the errored_status_code objects of class T the operations of Spec leave
Instances(T) ==
  LET vals == IF T = "erased"
              THEN {erasure_cast(v, ValueBits, ErasedBits) : v \in FailureValues}
              ELSE FailureValues
      doms == IF T = "erased" THEN ConcreteDomains ELSE {T}
  IN {StatusCode(T, d, v) : d \in doms, v \in vals}
       \cup {StatusCode(T, NULL, v) : v \in vals \cup {DefaultValue}}

\* the comparisons as functions of their operands: the operands are any
\* objects Spec can leave, and one comparison is made
InitCmp ==
  /\ objs \in [Slots -> {NoObject} \cup UNION {Instances(T) : T \in Types}]
  /\ proc = "running"
  /\ last = Last("init", 0, 0, "none", NoObject, 0)

NextCmp ==
  \/ \E i, j \in Slots : CompareErrored(i, j)
  \/ \E j \in Slots, c \in AllArgCodes : CompareCodeErrored(c, j)
  \/ \E i \in Slots, c \in AllArgCodes : CompareErroredCode(i, c)
  \/ \E i \in Slots, e \in Errc : CompareErroredErrc(i, e)
  \/ \E j \in Slots, e \in Errc : CompareErrcErrored(e, j)

SpecCmp == InitCmp /\ [][NextCmp]_vars

\* every object of Spec is one InitCmp draws
ObjectsAreInstances ==
  \A i \in Slots : Live(i) => objs[i] \in Instances(objs[i].type)

(***************************************************************************)
(* The properties                                                          *)
(***************************************************************************)
\* the domain's success predicate on a value of its value_type
DomainSuccess(D, v) == success(status_code_value(D, v))

CmpOps == {"cmp_errored_errored", "cmp_code_errored", "cmp_errored_code",
           "cmp_errored_errc", "cmp_errc_errored"}

\* C1 (I1): every live errored_status_code, of a concrete domain or erased,
\* reports success() == false, whatever constructions, copies, moves and
\* assignments led to it.
C1_NeverSuccess == \A i \in Slots : Live(i) => success(objs[i]) = FALSE

\* C1: a move assignment has just been made into a non-empty object; its
\* source is alive too (moved-from)
C1_Witness ==
  /\ last.op = "move_assign"
  /\ Live(last.dst) /\ ~empty(objs[last.dst])
  /\ Live(last.src) /\ empty(objs[last.src])

C3_DefaultTripsCheck ==
  (last.op = "default" /\ last.T \in ConcreteDomains /\ DomainSuccess(last.T, DefaultValue))
    => (proc = "terminated" /\ ~Live(last.dst))

\* C4 (P2): narrowing status_code<D>(v), v not a success, into
\* errored_status_code<erased<W>> does not end the process, and constructing
\* errored_status_code<D> from the erased code so obtained does not either
\* and yields value() == v, bit for bit.
C4_RoundTrip ==
  /\ (last.op = "narrow" /\ ~success(last.arg))
       => /\ proc = "running" /\ Live(last.dst)
          /\ objs[last.dst].type = "erased" /\ objs[last.dst].dom = last.arg.dom
  /\ \A D \in ConcreteDomains : \A v \in DomainValues(D) :
       ( /\ last.op = "widen" /\ last.T = D
         /\ ~DomainSuccess(D, v)
         /\ last.arg = erased_ctor_narrow(status_code_value(D, v)).obj )
       => /\ proc = "running" /\ Live(last.dst)
          /\ objs[last.dst] = status_code_value(D, v)
          /\ value(objs[last.dst]) = v

\* C4: errc::unknown (all bits set) has come back from an erased
\* errored_status_code that is alive
C4_Witness ==
  /\ last.op = "widen" /\ last.T = "generic" /\ Live(last.dst)
  /\ value(objs[last.dst]) = Pattern(errc_unknown, ValueBits)
  /\ \E j \in Slots : /\ objs[j] = last.arg
                      /\ objs[j] = erased_ctor_narrow(generic_code(errc_unknown)).obj

\* C5 (P6): errored_status_code<T>(e) for a foreign e with a make_status_code
\* ends as errored_status_code<T>(make_status_code(e)) does: the same object,
\* or the end of the process in both.
C5_MakeTransparent ==
  last.op = "make"
    => LET explicit == IF last.T = "erased"
                       THEN erased_ctor_narrow(make_status_code(last.val))
                       ELSE ctor_base(last.T, make_status_code(last.val))
       IN IF explicit.term # "none"
          THEN proc = explicit.term /\ ~Live(last.dst)
          ELSE proc = "running" /\ objs[last.dst] = explicit.obj

\* C5: an erased errored_status_code made from errc::resource_busy
C5_Witness ==
  /\ last.op = "make" /\ last.T = "erased" /\ last.val = errc_resource_busy
  /\ Live(last.dst) /\ objs[last.dst].dom = "generic"

\* C6: every operator== returns equivalent() of the two underlying status
\* codes (an errc operand converted by generic_code); an errored status code
\* built from the generic value resource_busy has that value() and compares
\* equal to errc::resource_busy.
C6_EqualityIsEquivalent ==
  /\ last.op = "cmp_errored_errored" => last.eq = equivalent(objs[last.src], objs[last.dst])
  /\ last.op = "cmp_code_errored" => last.eq = equivalent(last.arg, objs[last.dst])
  /\ last.op = "cmp_errored_code" => last.eq = equivalent(objs[last.src], last.arg)
  /\ last.op = "cmp_errored_errc"
       => last.eq = equivalent(objs[last.src], generic_code(last.val))
  /\ last.op = "cmp_errc_errored"
       => last.eq = equivalent(generic_code(last.val), objs[last.dst])
  /\ ( /\ last.op = "cmp_errored_errc" /\ last.val = errc_resource_busy
       /\ objs[last.src] = ctor_value("generic", Pattern(errc_resource_busy, ValueBits)).obj )
       => /\ last.eq = TRUE
          /\ value(objs[last.src]) = Pattern(errc_resource_busy, ValueBits)

\* C6: an erased errored status code of the posix domain compares equal to
\* errc::resource_busy, which no comparison of domain and value would give
C6_Witness ==
  /\ last.op = "cmp_errored_errc" /\ last.val = errc_resource_busy
  /\ last.eq = TRUE
  /\ objs[last.src].type = "erased" /\ objs[last.src].dom = "posix"
  /\ objs[last.src] # generic_code(errc_resource_busy)

\* C7 (P5): in every overload, a != b is the negation of a == b.
C7_NegationConsistent == last.op \in CmpOps => last.ne = ~last.eq

\* C7: errc != errored has been evaluated to true
C7_Witness == last.op = "cmp_errc_errored" /\ last.ne = TRUE /\ last.eq = FALSE

\* C8 (P4): a == b iff b == a for two errored status codes of any domains,
\* erased or not, and (a == e) = (e == a) for an errc e.
C8_Symmetric ==
  last.op \in {"cmp_errored_errored", "cmp_errored_errc", "cmp_errc_errored"}
    => last.eq = last.rev

\* C8: errored status codes of two different domains compare equal both ways
C8_Witness ==
  /\ last.op = "cmp_errored_errored" /\ last.eq = TRUE /\ last.rev = TRUE
  /\ objs[last.src].dom = "generic" /\ objs[last.dst].dom = "posix"

\* C9: a live errored_status_code changes only by being assigned to (or, as
\* any C++ object, by being destroyed or moved from); value(), clear(), and
\* being the source of a copy leave it as it is.
C9_Immutable ==
  [][\A i \in Slots :
       (Live(i) /\ objs'[i] # objs[i])
         => \/ last'.op \in {"copy_assign", "move_assign"} /\ last'.dst = i
            \/ last'.op \in {"move", "move_assign"} /\ last'.src = i
            \/ last'.op = "destroy" /\ last'.dst = i]_vars

\* C10: every live errored_status_code is a failure: never empty and never a
\* success.
C10_AlwaysFailure ==
  \A i \in Slots : Live(i) => (~empty(objs[i]) /\ failure(objs[i]))

====
